---- MODULE Spec2Model ----
(***************************************************************************)
(* Model of the inventory backend in src-tauri/src/lib.rs: one SQLite      *)
(* table `inventory` behind a Mutex<Connection>, an image directory on     *)
(* disk, and the six tauri commands, invoked concurrently from request     *)
(* threads.  Each command is split into the steps between which another    *)
(* thread can observe or change shared state (the table, the files, the    *)
(* clock, the mutex).                                                      *)
(*                                                                         *)
(* Environment: SQLite statements and filesystem calls do what they are    *)
(* asked (no I/O faults, no poisoned mutex); fs::remove_file fails only    *)
(* when the file is absent, and that failure is ignored by the code.  The  *)
(* wall clock never goes backwards but is free to stand still between two  *)
(* reads.                                                                  *)
(***************************************************************************)
EXTENDS Integers, Sequences, FiniteSets, TLC

VARIABLES
    rows,   \* the inventory table: a set of row records
    seq,    \* sqlite_sequence for AUTOINCREMENT: largest rowid ever assigned
    files,  \* paths of the image files that exist on disk
    now,    \* the wall clock, in milliseconds
    lock,   \* holder of AppState.db (the Mutex), or NoProc
    pc,     \* per request thread: position in the command it runs
    loc,    \* per request thread: arguments and local variables
    res,    \* the value returned by the command that returned last, until the next invocation
    calls,  \* number of commands invoked so far
    pred    \* history: pairs <<a, b>>, add_item of row a returned before add_item of row b was invoked

vars == <<rows, seq, files, now, lock, pc, loc, res, calls, pred>>

----------------------------------------------------------------------------
(* Bounds of the model *)

\* at most this many commands are invoked
MaxCalls == 3
\* milliseconds per second of the model's clock (1000 on a real one)
MsPerSec == 2
\* the clock starts in the last millisecond of a second and is followed into
\* the first millisecond of the next one (what a previous run left behind is
\* dated millisecond 0, a second earlier)
StartTime == 2 * MsPerSec - 1
EndTime == 2 * MsPerSec

Procs == {"t1", "t2"}
NoProc == "none"

----------------------------------------------------------------------------
(* Values *)

\* Option<String>::None for image_path; a path is a directory and a file name
Null == [dir |-> "null", file |-> -1]
\* app_data_dir()/inventory_images
ImagesDir == "inventory_images"
\* an image directory of a prior version of the application
OldDir == "old_images"
\* Path::file_name() is None (a path ending in "..")
NoName == -1

\* Characters of an image_base64 argument: Marker is the substring "base64,",
\* "A" a group of characters of the standard base64 alphabet, "x" a character
\* outside it (such as ':' or ';' or '!').
Marker == "M"
Base64Alphabet == {"A"}
\* Option<String>::None for image_base64
NoImage == <<"None">>
\* the image_base64 arguments tried: none; a bare payload; a data URL with a
\* malformed payload; a data URL whose payload is followed by a second marker
ImageInputs ==
    { NoImage, <<"A">>, <<"x", "M", "x">>, <<"x", "M", "A", "M", "x">> }

\* the (name, cantidad_necesaria, cantidad_disponible) arguments tried
AddArgs == { [name |-> "a", cantidad_necesaria |-> 0, cantidad_disponible |-> 1] }
UpdateArgs == { [name |-> "b", cantidad_necesaria |-> 1, cantidad_disponible |-> 0] }

\* the id arguments tried for update_item and for delete_item
UpdateIds == {1}
DeleteIds == {1, 2}

InventoryItem(id, name, image_path, cn, cd, created_at) ==
    [id |-> id, name |-> name, image_path |-> image_path,
     cantidad_necesaria |-> cn, cantidad_disponible |-> cd,
     created_at |-> created_at]

NoItem == InventoryItem(0, "", Null, 0, 0, -1)

\* the locals of a request thread that runs no command.  Three fields are
\* history, kept for the properties: old_existed (the file under old_path was
\* on disk when update_item removed it), fixed (ids of the rows
\* fix_image_paths has rewritten) and before (ids of the rows in the table
\* when add_item was invoked).
NoLocals ==
    [id |-> 0, name |-> "", image_base64 |-> NoImage,
     cantidad_necesaria |-> 0, cantidad_disponible |-> 0,
     image_path |-> Null, local_time |-> 0,
     old_path |-> Null, old_existed |-> FALSE,
     items |-> <<>>, updated |-> 0, fixed |-> {}, before |-> {}]

NoResult == [kind |-> "none", ok |-> TRUE, id |-> 0, item |-> NoItem, list |-> <<>>, n |-> 0]
Ok(kind, id, item, list, n) ==
    [kind |-> kind, ok |-> TRUE, id |-> id, item |-> item, list |-> list, n |-> n]
Err(kind, id) ==
    [kind |-> kind, ok |-> FALSE, id |-> id, item |-> NoItem, list |-> <<>>, n |-> 0]

----------------------------------------------------------------------------
(* save_image: the base64 payload and the file name *)

Contains(s) == \E i \in 1..Len(s) : s[i] = Marker

FirstMarker(s) == CHOOSE i \in 1..Len(s) : s[i] = Marker /\ \A j \in 1..(i-1) : s[j] # Marker

\* base64_data.split("base64,").collect()[1]: the text between the first
\* marker and the second one (or the end of the string)
SplitPart1(s) ==
    LET rest == SubSeq(s, FirstMarker(s) + 1, Len(s))
    IN  IF Contains(rest) THEN SubSeq(rest, 1, FirstMarker(rest) - 1) ELSE rest

\* the text handed to the decoder
Payload(base64_data) ==
    IF Contains(base64_data) THEN SplitPart1(base64_data) ELSE base64_data

\* general_purpose::STANDARD.decode(..) is Ok
DecodeOk(text) == \A i \in 1..Len(text) : text[i] \in Base64Alphabet

\* images_dir.push(format!("img_{}.png", timestamp_millis))
ImagePath(millis) == [dir |-> ImagesDir, file |-> millis]

\* save_image's result for an argument at a clock reading
save_image(base64_data, millis) ==
    IF DecodeOk(Payload(base64_data))
    THEN [ok |-> TRUE, path |-> ImagePath(millis)]
    ELSE [ok |-> FALSE, path |-> Null]

\* chrono::Local::now().format("%Y-%m-%d %H:%M:%S"): the clock cut to seconds
LocalTime(millis) == millis \div MsPerSec

\* Path::new(&old_path).file_name()
FileName(path) == path.file

----------------------------------------------------------------------------
(* The table *)

RowIds(R) == {r.id : r \in R}
RowById(R, id) == CHOOSE r \in R : r.id = id

\* id INTEGER PRIMARY KEY AUTOINCREMENT: one more than the largest rowid ever assigned
NextRowid(s) == s + 1

\* the INSERT with the two quantities bound to each other's column
InsertedRow_QuantitiesSwapped(id, name, image_path, cn, cd, local_time) ==
    InventoryItem(id, name, image_path, cd, cn, local_time)

\* INSERT INTO inventory (name, image_path, cantidad_necesaria,
\* cantidad_disponible, created_at) VALUES (?1, ?2, ?3, ?4, ?5), with the rowid
InsertedRow(id, name, image_path, cn, cd, local_time) ==
    InventoryItem(id, name, image_path, cn, cd, local_time)

\* SELECT .. ORDER BY created_at DESC: every order of the rows that is
\* descending in created_at (SQL leaves the order of equal keys open)
OrderByCreatedAtDesc(R) ==
    { s \in [1..Cardinality(R) -> R] :
        /\ \A i, j \in 1..Cardinality(R) : i # j => s[i] # s[j]
        /\ \A i, j \in 1..Cardinality(R) : i < j => s[i].created_at >= s[j].created_at }

\* the UPDATE written as an upsert: a row is stored under an id that has none
UpdateWithImage_Upsert(R, id, name, image_path, cn, cd) ==
    { r \in R : r.id # id }
      \cup { InventoryItem(id, name, image_path, cn, cd,
                           IF id \in RowIds(R) THEN RowById(R, id).created_at ELSE 0) }

\* UPDATE inventory SET name, image_path, cantidad_necesaria, cantidad_disponible WHERE id
UpdateWithImage(R, id, name, image_path, cn, cd) ==
    { IF r.id = id
      THEN [r EXCEPT !.name = name, !.image_path = image_path,
                     !.cantidad_necesaria = cn, !.cantidad_disponible = cd]
      ELSE r : r \in R }

\* the UPDATE written as INSERT OR REPLACE: the row is stored anew, without
\* its image_path and created_at
UpdateNoImage_Replace(R, id, name, cn, cd) ==
    { IF r.id = id THEN InventoryItem(id, name, Null, cn, cd, -1) ELSE r : r \in R }

\* UPDATE inventory SET name, cantidad_necesaria, cantidad_disponible WHERE id
UpdateNoImage(R, id, name, cn, cd) ==
    { IF r.id = id
      THEN [r EXCEPT !.name = name,
                     !.cantidad_necesaria = cn, !.cantidad_disponible = cd]
      ELSE r : r \in R }

\* UPDATE inventory SET image_path WHERE id
UpdateImagePath(R, id, image_path) ==
    { IF r.id = id THEN [r EXCEPT !.image_path = image_path] ELSE r : r \in R }

\* DELETE FROM inventory WHERE id
DeleteRow(R, id) == {r \in R : r.id # id}

\* SELECT image_path FROM inventory WHERE id, then the two `if let`s: the path
\* handed to fs::remove_file, or Null when there is no row or no image
StoredImagePath(R, id) ==
    IF id \in RowIds(R) THEN RowById(R, id).image_path ELSE Null

\* SELECT id, image_path FROM inventory WHERE image_path IS NOT NULL, in rowid order
RECURSIVE ItemsWithImage(_)
ItemsWithImage(R) ==
    LET S == {r \in R : r.image_path # Null}
    IN  IF S = {} THEN <<>>
        ELSE LET r == CHOOSE x \in S : \A y \in S : x.id <= y.id
             IN  <<[id |-> r.id, old_path |-> r.image_path]>> \o ItemsWithImage(S \ {r})

----------------------------------------------------------------------------
(* Initial state: the database and image directory as a previous run (of   *)
(* this or of a prior version) left them.                                  *)

LegacyRow(path) == InventoryItem(1, "a", path, 0, 0, LocalTime(0))

\* <<table, files>>: an empty database; a row whose image was moved to the
\* current image directory; a row whose image is still where it is stored; a
\* row whose stored path has no file name
InitStores ==
    { <<{}, {}>>,
      <<{LegacyRow([dir |-> OldDir, file |-> 0])}, {[dir |-> ImagesDir, file |-> 0]}>>,
      <<{LegacyRow([dir |-> OldDir, file |-> 0])}, {[dir |-> OldDir, file |-> 0]}>>,
      <<{LegacyRow([dir |-> OldDir, file |-> NoName])}, {}>> }

Init ==
    /\ \E st \in InitStores : rows = st[1] /\ files = st[2]
    /\ seq = Cardinality(rows)
    /\ now = StartTime
    /\ lock = NoProc
    /\ calls = 0
    /\ pc = [p \in Procs |-> "idle"]
    /\ loc = [p \in Procs |-> NoLocals]
    /\ res = NoResult
    /\ pred = {}

----------------------------------------------------------------------------
(* The mutex *)

\* state.db.lock()
Acquire(p) == lock = NoProc /\ lock' = p
\* the guard is dropped when the command returns
Release(p) == lock' = NoProc

\* the command returns `r`
Return(p, r) ==
    /\ pc' = [pc EXCEPT ![p] = "idle"]
    /\ loc' = [loc EXCEPT ![p] = NoLocals]
    /\ res' = r

Goto(p, label) == pc' = [pc EXCEPT ![p] = label]

\* a request thread that runs no command takes the next invocation
Invoke(p) ==
    /\ pc[p] = "idle"
    /\ calls < MaxCalls
    /\ calls' = calls + 1

----------------------------------------------------------------------------
(* The clock *)

Tick ==
    /\ now < EndTime
    /\ now' = now + 1
    /\ UNCHANGED <<rows, seq, files, lock, pc, loc, res, pred, calls>>

----------------------------------------------------------------------------
(* add_item *)

\* the command is invoked
add_item_call(p) ==
    /\ Invoke(p)
    /\ res' = NoResult
    /\ \E a \in AddArgs, img \in ImageInputs :
         /\ loc' = [loc EXCEPT ![p] =
                      [NoLocals EXCEPT !.name = a.name, !.image_base64 = img,
                                       !.cantidad_necesaria = a.cantidad_necesaria,
                                       !.cantidad_disponible = a.cantidad_disponible,
                                       !.before = RowIds(rows)]]
         /\ Goto(p, IF img # NoImage THEN "add_save" ELSE "add_time")
    /\ UNCHANGED <<rows, seq, files, now, lock, pred>>

\* image_path = Some(save_image(&base64_data, ..)?), before the mutex is taken
add_item_save_image(p) ==
    /\ pc[p] = "add_save"
    /\ LET saved == save_image(loc[p].image_base64, now)
       IN  IF saved.ok
           THEN /\ files' = files \cup {saved.path}
                /\ loc' = [loc EXCEPT ![p].image_path = saved.path]
                /\ Goto(p, "add_time")
                /\ UNCHANGED res
           ELSE /\ Return(p, Err("add", 0))
                /\ UNCHANGED files
    /\ UNCHANGED <<rows, seq, now, lock, pred, calls>>

\* local_time = chrono::Local::now().format(..)
add_item_local_time(p) ==
    /\ pc[p] = "add_time"
    /\ loc' = [loc EXCEPT ![p].local_time = LocalTime(now)]
    /\ Goto(p, "add_lock")
    /\ UNCHANGED <<rows, seq, files, now, lock, res, pred, calls>>

add_item_lock(p) ==
    /\ pc[p] = "add_lock"
    /\ Acquire(p)
    /\ Goto(p, "add_insert")
    /\ UNCHANGED <<rows, seq, files, now, loc, res, pred, calls>>

\* INSERT, last_insert_rowid, SELECT .. WHERE id, return the row
add_item_insert(p) ==
    /\ pc[p] = "add_insert"
    /\ LET id == NextRowid(seq)
           item == InsertedRow(id, loc[p].name, loc[p].image_path,
                               loc[p].cantidad_necesaria, loc[p].cantidad_disponible,
                               loc[p].local_time)
       IN  /\ rows' = rows \cup {item}
           /\ seq' = id
           /\ pred' = pred \cup {<<a, id>> : a \in loc[p].before}
           /\ Return(p, Ok("add", id, RowById(rows', id), <<>>, 0))
    /\ Release(p)
    /\ UNCHANGED <<files, now, calls>>

----------------------------------------------------------------------------
(* update_item *)

\* the command is invoked and takes the mutex, its first statement
update_item_lock(p) ==
    /\ Invoke(p)
    /\ res' = NoResult
    /\ Acquire(p)
    /\ \E id \in UpdateIds, a \in UpdateArgs, img \in ImageInputs :
         /\ loc' = [loc EXCEPT ![p] =
                      [NoLocals EXCEPT !.id = id, !.name = a.name, !.image_base64 = img,
                                       !.cantidad_necesaria = a.cantidad_necesaria,
                                       !.cantidad_disponible = a.cantidad_disponible]]
         /\ Goto(p, IF img # NoImage THEN "upd_old" ELSE "upd_exec")
    /\ UNCHANGED <<rows, seq, files, now, pred>>

\* SELECT image_path .. WHERE id; let _ = fs::remove_file(&path)
update_item_remove_old(p) ==
    /\ pc[p] = "upd_old"
    /\ LET path == StoredImagePath(rows, loc[p].id)
       IN  /\ files' = IF path # Null THEN files \ {path} ELSE files
           /\ loc' = [loc EXCEPT ![p].old_path = path,
                                 ![p].old_existed = (path # Null /\ path \in files)]
    /\ Goto(p, "upd_save")
    /\ UNCHANGED <<rows, seq, now, lock, res, pred, calls>>

\* image_path = Some(save_image(&base64_data, ..)?)
update_item_save_image(p) ==
    /\ pc[p] = "upd_save"
    /\ LET saved == save_image(loc[p].image_base64, now)
       IN  IF saved.ok
           THEN /\ files' = files \cup {saved.path}
                /\ loc' = [loc EXCEPT ![p].image_path = saved.path]
                /\ Goto(p, "upd_exec")
                /\ UNCHANGED <<res, lock>>
           ELSE /\ Return(p, Err("update", loc[p].id))
                /\ Release(p)
                /\ UNCHANGED files
    /\ UNCHANGED <<rows, seq, now, pred, calls>>

\* one of the two UPDATEs, SELECT .. WHERE id, return the row
update_item_exec(p) ==
    /\ pc[p] = "upd_exec"
    /\ rows' = IF loc[p].image_path # Null
               THEN UpdateWithImage(rows, loc[p].id, loc[p].name, loc[p].image_path,
                                    loc[p].cantidad_necesaria, loc[p].cantidad_disponible)
               ELSE UpdateNoImage(rows, loc[p].id, loc[p].name,
                                  loc[p].cantidad_necesaria, loc[p].cantidad_disponible)
    /\ IF loc[p].id \in RowIds(rows')
       THEN Return(p, Ok("update", loc[p].id, RowById(rows', loc[p].id), <<>>, 0))
       ELSE Return(p, Err("update", loc[p].id))
    /\ Release(p)
    /\ UNCHANGED <<seq, files, now, pred, calls>>

----------------------------------------------------------------------------
(* delete_item *)

\* the command is invoked and takes the mutex, its first statement
delete_item_lock(p) ==
    /\ Invoke(p)
    /\ res' = NoResult
    /\ Acquire(p)
    /\ \E id \in DeleteIds : loc' = [loc EXCEPT ![p] = [NoLocals EXCEPT !.id = id]]
    /\ Goto(p, "del_old")
    /\ UNCHANGED <<rows, seq, files, now, pred>>

\* SELECT image_path .. WHERE id; let _ = fs::remove_file(&path)
delete_item_remove_image(p) ==
    /\ pc[p] = "del_old"
    /\ LET path == StoredImagePath(rows, loc[p].id)
       IN  /\ files' = IF path # Null THEN files \ {path} ELSE files
           /\ loc' = [loc EXCEPT ![p].old_path = path]
    /\ Goto(p, "del_exec")
    /\ UNCHANGED <<rows, seq, now, lock, res, pred, calls>>

\* DELETE FROM inventory WHERE id; Ok(())
delete_item_exec(p) ==
    /\ pc[p] = "del_exec"
    /\ rows' = DeleteRow(rows, loc[p].id)
    /\ Return(p, Ok("delete", loc[p].id, NoItem, <<>>, 0))
    /\ Release(p)
    /\ UNCHANGED <<seq, files, now, pred, calls>>

----------------------------------------------------------------------------
(* get_all_items *)

\* the command is invoked and takes the mutex, its first statement
get_all_items_lock(p) ==
    /\ Invoke(p)
    /\ res' = NoResult
    /\ Acquire(p)
    /\ Goto(p, "get_query")
    /\ UNCHANGED <<rows, seq, files, now, loc, pred>>

get_all_items_query(p) ==
    /\ pc[p] = "get_query"
    /\ \E items \in OrderByCreatedAtDesc(rows) :
         Return(p, Ok("list", 0, NoItem, items, 0))
    /\ Release(p)
    /\ UNCHANGED <<rows, seq, files, now, pred, calls>>

----------------------------------------------------------------------------
(* get_db_path *)

get_db_path(p) ==
    /\ Invoke(p)
    /\ res' = Ok("path", 0, NoItem, <<>>, 0)
    /\ UNCHANGED <<pc, loc>>
    /\ UNCHANGED <<rows, seq, files, now, lock, pred>>

----------------------------------------------------------------------------
(* fix_image_paths *)

\* the command is invoked and takes the mutex, its first statement
fix_image_paths_lock(p) ==
    /\ Invoke(p)
    /\ res' = NoResult
    /\ Acquire(p)
    /\ Goto(p, "fix_query")
    /\ UNCHANGED <<rows, seq, files, now, loc, pred>>

\* items = SELECT id, image_path .. WHERE image_path IS NOT NULL; updated = 0
fix_image_paths_query(p) ==
    /\ pc[p] = "fix_query"
    /\ loc' = [loc EXCEPT ![p].items = ItemsWithImage(rows), ![p].updated = 0]
    /\ Goto(p, "fix_row")
    /\ UNCHANGED <<rows, seq, files, now, lock, res, pred, calls>>

\* the loop body without its new_path.exists() test
Fixable_NoExistsTest(old_path, onDisk) ==
    FileName(old_path) # NoName

\* whether the loop body rewrites the row stored under old_path
Fixable(old_path, onDisk) ==
    /\ FileName(old_path) # NoName
    /\ [dir |-> ImagesDir, file |-> FileName(old_path)] \in onDisk

\* one iteration of `for (id, old_path) in items`
fix_image_paths_row(p) ==
    /\ pc[p] = "fix_row"
    /\ loc[p].items # <<>>
    /\ LET it == Head(loc[p].items)
           new_path == [dir |-> ImagesDir, file |-> FileName(it.old_path)]
       IN  IF Fixable(it.old_path, files)
           THEN /\ rows' = UpdateImagePath(rows, it.id, new_path)
                /\ loc' = [loc EXCEPT ![p].items = Tail(@),
                                      ![p].updated = @ + 1,
                                      ![p].fixed = @ \cup {it.id}]
           ELSE /\ rows' = rows
                /\ loc' = [loc EXCEPT ![p].items = Tail(@)]
    /\ UNCHANGED <<seq, files, now, lock, pc, res, pred, calls>>

\* Ok(updated)
fix_image_paths_return(p) ==
    /\ pc[p] = "fix_row"
    /\ loc[p].items = <<>>
    /\ Return(p, Ok("fix", 0, NoItem, <<>>, loc[p].updated))
    /\ Release(p)
    /\ UNCHANGED <<rows, seq, files, now, pred, calls>>

----------------------------------------------------------------------------

Next ==
    \/ Tick
    \/ \E p \in Procs : add_item_call(p)
    \/ \E p \in Procs : add_item_save_image(p)
    \/ \E p \in Procs : add_item_local_time(p)
    \/ \E p \in Procs : add_item_lock(p)
    \/ \E p \in Procs : add_item_insert(p)
    \/ \E p \in Procs : update_item_lock(p)
    \/ \E p \in Procs : update_item_remove_old(p)
    \/ \E p \in Procs : update_item_save_image(p)
    \/ \E p \in Procs : update_item_exec(p)
    \/ \E p \in Procs : delete_item_lock(p)
    \/ \E p \in Procs : delete_item_remove_image(p)
    \/ \E p \in Procs : delete_item_exec(p)
    \/ \E p \in Procs : get_all_items_lock(p)
    \/ \E p \in Procs : get_all_items_query(p)
    \/ \E p \in Procs : get_db_path(p)
    \/ \E p \in Procs : fix_image_paths_lock(p)
    \/ \E p \in Procs : fix_image_paths_query(p)
    \/ \E p \in Procs : fix_image_paths_row(p)
    \/ \E p \in Procs : fix_image_paths_return(p)

Spec == Init /\ [][Next]_vars

----------------------------------------------------------------------------
(* Properties *)

\* thread p takes a step out of position `label`
Leaves(p, label) == pc[p] = label /\ pc'[p] # label

\* positions at which the next statement reads or writes the database or an image file
IOSteps ==
    { "add_save", "add_insert", "upd_old", "upd_save", "upd_exec",
      "del_old", "del_exec", "get_query", "fix_query", "fix_row" }

\* C1: every command holds the database lock for all of its database and
\* image-file I/O, so at most one command is doing such I/O at a time: no
\* two threads are at an I/O position together.
C1_OneCommandDoesIO ==
    \A p, q \in Procs : p # q => ~(pc[p] \in IOSteps /\ pc[q] \in IOSteps)

\* the argument with everything up to and including the first marker removed
StripPrefix(s) ==
    IF Contains(s) THEN SubSeq(s, FirstMarker(s) + 1, Len(s)) ELSE s

\* the argument, once its prefix is stripped, is text of the base64 alphabet
ValidBase64(s) ==
    \A i \in 1..Len(StripPrefix(s)) : StripPrefix(s)[i] \in Base64Alphabet

\* C2: add_item or update_item called with image data that is not valid
\* base64 once its 'base64,' prefix is stripped returns an error, and no step
\* of the command changes the table.
C2_MalformedImageNoMutation ==
    [][\A p \in Procs :
         ( /\ loc[p].image_base64 # NoImage
           /\ ~ValidBase64(loc[p].image_base64)
           /\ pc'[p] # pc[p] )
         => /\ rows' = rows
            /\ (pc'[p] = "idle" => ~res'.ok)]_vars

\* image paths that rows store
StoredPaths == {r.image_path : r \in rows} \ {Null}

\* C6: a save writes a new, uniquely named file: the path it writes is not
\* on disk, not stored in any row, and not the path of a save another
\* command has made and not yet stored.
C6_SaveWritesFreshPath ==
    [][\A p \in Procs :
         ( /\ pc[p] \in {"add_save", "upd_save"}
           /\ pc'[p] \in {"add_time", "upd_exec"} )
         => /\ loc'[p].image_path \notin files
            /\ loc'[p].image_path \notin StoredPaths
            /\ \A q \in Procs \ {p} : loc[q].image_path # loc'[p].image_path]_vars

C3_UpdateImageHandling ==
    [][\A p \in Procs :
         ( Leaves(p, "upd_exec") /\ loc[p].id \in RowIds(rows) )
         => LET old == RowById(rows, loc[p].id)
                new == RowById(rows', loc[p].id)
            IN  /\ res'.ok /\ res'.item = new
                /\ new.name = loc[p].name
                /\ new.cantidad_necesaria = loc[p].cantidad_necesaria
                /\ new.cantidad_disponible = loc[p].cantidad_disponible
                /\ loc[p].image_base64 = NoImage
                     => new.image_path = old.image_path /\ files' = files
                /\ loc[p].image_base64 # NoImage
                     => /\ new.image_path = loc[p].image_path
                        /\ new.image_path \in files'
                        /\ loc[p].old_existed => loc[p].old_path \notin files']_vars

\* C4: when delete_item(id) returns, it returns success, no row has that id
\* (and none gets it later: an id that was assigned and has no row stays
\* without one), and the image file of the deleted row is not on disk; on an
\* id that has no row the command changes no row and no file.
C4_DeleteRemovesRowAndImage ==
    [][/\ \A p \in Procs :
            Leaves(p, "del_exec")
            => /\ res'.ok
               /\ loc[p].id \notin RowIds(rows')
               /\ loc[p].old_path # Null => loc[p].old_path \notin files'
               /\ loc[p].id \notin RowIds(rows) => rows' = rows /\ files' = files
       /\ \A p \in Procs :
            ( Leaves(p, "del_old") /\ loc[p].id \notin RowIds(rows) )
            => rows' = rows /\ files' = files
       /\ \A id \in 1..seq : id \notin RowIds(rows) => id \notin RowIds(rows')]_vars

\* position of the row with this id in a listing (0 when it is not listed)
IndexOf(list, id) ==
    IF \E i \in 1..Len(list) : list[i].id = id
    THEN CHOOSE i \in 1..Len(list) : list[i].id = id
    ELSE 0

\* C5: get_all_items lists newest first: when add_item of row a returned
\* before add_item of row b was invoked and both are listed, b comes before a.
C5_NewestFirst ==
    res.kind = "list"
    => \A ab \in pred :
         ( IndexOf(res.list, ab[1]) # 0 /\ IndexOf(res.list, ab[2]) # 0 )
         => IndexOf(res.list, ab[2]) < IndexOf(res.list, ab[1])

\* the (id, created_at) pairs of a table
Keys(R) == {<<r.id, r.created_at>> : r \in R}

\* C7: rows have pairwise distinct ids in every reachable state, and a row's
\* id and created_at never change: a row present before and after a step
\* keeps its created_at, and only add_item's INSERT and delete_item's DELETE
\* change which (id, created_at) pairs the table holds (update_item and
\* fix_image_paths never do).
C7_IdAndCreatedAtImmutable ==
    /\ [](Cardinality(RowIds(rows)) = Cardinality(rows))
    /\ [][/\ \A r \in rows, r2 \in rows' : r.id = r2.id => r.created_at = r2.created_at
          /\ Keys(rows') # Keys(rows)
               => \E p \in Procs : Leaves(p, "add_insert") \/ Leaves(p, "del_exec")]_vars

\* an update of one row of several has returned
C7_Witness ==
    /\ res.kind = "update" /\ res.ok
    /\ res.item \in rows
    /\ res.item.name = "b"
    /\ Cardinality(rows) >= 2

\* C8: fix_image_paths looks at exactly the rows with a non-null image_path;
\* for each it rewrites image_path to image directory + file name when the
\* stored path has a file name and that file is in the image directory, and
\* leaves the row alone otherwise; nothing else in the table changes; the
\* count returned is the number of rows rewritten.
C8_FixImagePaths ==
    [][\A p \in Procs :
         /\ Leaves(p, "fix_query")
              => /\ {it.id : it \in {loc'[p].items[i] : i \in 1..Len(loc'[p].items)}}
                      = {r.id : r \in {x \in rows : x.image_path # Null}}
                 /\ Len(loc'[p].items) = Cardinality({x \in rows : x.image_path # Null})
                 /\ loc'[p].updated = 0 /\ loc'[p].fixed = {}
                 /\ rows' = rows
         /\ (pc[p] = "fix_row" /\ loc'[p] # loc[p] /\ loc[p].items # <<>>)
              => LET r == RowById(rows, Head(loc[p].items).id)
                     target == [dir |-> ImagesDir, file |-> r.image_path.file]
                     found == r.image_path.file # NoName /\ target \in files
                 IN  /\ rows' = (rows \ {r}) \cup
                                  {IF found THEN [r EXCEPT !.image_path = target] ELSE r}
                     /\ loc'[p].updated = loc[p].updated + (IF found THEN 1 ELSE 0)
                     /\ loc'[p].fixed = loc[p].fixed \cup (IF found THEN {r.id} ELSE {})
                     /\ files' = files
         /\ (Leaves(p, "fix_row") /\ loc[p].items = <<>>)
              => /\ res'.ok /\ res'.n = Cardinality(loc[p].fixed)
                 /\ rows' = rows /\ files' = files]_vars

\* fix_image_paths has returned 1: it moved a row's path from the old image
\* directory to the current one, and left a row without image as it was
C8_Witness ==
    /\ res.kind = "fix" /\ res.n = 1
    /\ \E r \in rows : r.image_path = [dir |-> ImagesDir, file |-> 0]
    /\ \E r \in rows : r.image_path = Null

\* C9: a successful add_item adds exactly one row, with a new id, the
\* arguments as name and quantities, the saved image's path (none when no
\* image was passed) and a created_at, changes no existing row and returns
\* the row it added; get_all_items returns every row of the table once, so
\* after add_item on an empty table it returns that one row.
C9_AddThenList ==
    [][\A p \in Procs :
         /\ Leaves(p, "add_insert")
              => /\ res'.ok
                 /\ res'.item.id \notin RowIds(rows)
                 /\ rows' = rows \cup {res'.item}
                 /\ Cardinality(rows') = Cardinality(rows) + 1
                 /\ res'.item.name = loc[p].name
                 /\ res'.item.cantidad_necesaria = loc[p].cantidad_necesaria
                 /\ res'.item.cantidad_disponible = loc[p].cantidad_disponible
                 /\ res'.item.created_at = loc[p].local_time
                 /\ res'.item.created_at # NoItem.created_at
                 /\ res'.item.image_path = loc[p].image_path
                 /\ loc[p].image_base64 = NoImage => res'.item.image_path = Null
         /\ Leaves(p, "get_query")
              => /\ res'.ok
                 /\ Len(res'.list) = Cardinality(rows)
                 /\ {res'.list[i] : i \in 1..Len(res'.list)} = rows
                 /\ rows' = rows]_vars

\* add_item without image on an empty table, then get_all_items: one row,
\* which is the table's
C9_Witness ==
    /\ res.kind = "list" /\ Len(res.list) = 1
    /\ rows = {res.list[1]}
    /\ res.list[1].name = "a" /\ res.list[1].image_path = Null
    /\ res.list[1].cantidad_necesaria = 0 /\ res.list[1].cantidad_disponible = 1
    /\ res.list[1].id = 1 /\ seq = 1

====
